---- MODULE Spec2Model ----
(***************************************************************************)
(* Model of hw2_q2.py: meetup(agent_listing) and its inner process_pair.   *)
(* meetup is a pure function of its argument; it is an operator here, and  *)
(* the actions are a caller applying it to a listing and, in the second    *)
(* specification, passing the returned list to it again.                   *)
(*                                                                         *)
(* In the file, line 32 (from itertools import islice) stands at column 0  *)
(* between the docstring of meetup and the indented lines 34-98, so the    *)
(* file as it is does not compile (IndentationError at line 34).  Lines    *)
(* 34-98 are modelled as what their indentation makes them: the body of    *)
(* meetup.                                                                 *)
(***************************************************************************)
EXTENDS Naturals, Sequences, FiniteSets

\* Longest incoming listing that is explored.
MaxLen == 4

\* Condition = Enum("Condition", ("CURE", "HEALTHY", "SICK", "DYING", "DEAD"))
Condition == {"CURE", "HEALTHY", "SICK", "DYING", "DEAD"}

\* Agent names are opaque; two of them allow both distinct and duplicate names.
Names == {"A", "B"}

\* Agent = namedtuple("Agent", ("name", "category"))
Agent(name, category) == [name |-> name, category |-> category]

AgentValues == [name : Names, category : Condition]

Listings == UNION {[1..n -> AgentValues] : n \in 0..MaxLen}

VARIABLES
    agent_listing,   \* the argument of the current call of meetup
    result,          \* the list the call returned
    calls,           \* the calls of process_pair the call made, in order
    pc,              \* "start" before the call, "done" after it
    changed          \* whether an earlier call returned a list other than its argument

vars == <<agent_listing, result, calls, pc, changed>>

\* Lines 42-46 with the two outcomes exchanged.
new_b_category_swapped(b) ==
    IF b.category = "SICK" THEN "DYING"
    ELSE IF b.category = "DYING" THEN "SICK"
    ELSE b.category

\* Lines 42-46: what an agent that meets a CURE before it becomes.
new_b_category(b) ==
    IF b.category = "SICK" THEN "HEALTHY"
    ELSE IF b.category = "DYING" THEN "SICK"
    ELSE b.category

\* Lines 50-54 with the DYING case left out.
new_a_category_sick_only(a) ==
    IF a.category = "SICK" THEN "HEALTHY"
    ELSE a.category

\* Lines 50-54: what an agent that meets a CURE after it becomes.
new_a_category(a) ==
    IF a.category = "SICK" THEN "HEALTHY"
    ELSE IF a.category = "DYING" THEN "SICK"
    ELSE a.category

\* process_pair building the cured second agent with a's name (line 47).
process_pair_wrong_name(a, b) ==
    IF a.category \in {"HEALTHY", "DEAD"} \/ b.category \in {"HEALTHY", "DEAD"}
    THEN [agents |-> <<a, b>>, ret |-> 38]
    ELSE IF a.category = "CURE" /\ b.category # "CURE"
    THEN [agents |-> <<a, Agent(a.name, new_b_category(b))>>, ret |-> 47]
    ELSE IF b.category = "CURE" /\ a.category # "CURE"
    THEN [agents |-> <<Agent(a.name, new_a_category(a)), b>>, ret |-> 55]
    ELSE IF a.category = "CURE" /\ b.category = "CURE"
    THEN [agents |-> <<a, b>>, ret |-> 58]
    ELSE IF a.category = "SICK" /\ b.category = "SICK"
    THEN [agents |-> <<Agent(a.name, "DYING"), Agent(b.name, "DYING")>>, ret |-> 62]
    ELSE IF a.category = "SICK" /\ b.category = "DYING"
    THEN [agents |-> <<Agent(a.name, "DYING"), Agent(b.name, "DEAD")>>, ret |-> 66]
    ELSE IF a.category = "DYING" /\ b.category = "SICK"
    THEN [agents |-> <<Agent(a.name, "DEAD"), Agent(b.name, "DYING")>>, ret |-> 69]
    ELSE IF a.category = "DYING" /\ b.category = "DYING"
    THEN [agents |-> <<Agent(a.name, "DEAD"), Agent(b.name, "DEAD")>>, ret |-> 73]
    ELSE [agents |-> <<a, b>>, ret |-> 76]

\* process_pair(a, b), lines 34-76: the returned list, and the line of the
\* return statement that produced it.
process_pair(a, b) ==
    IF a.category \in {"HEALTHY", "DEAD"} \/ b.category \in {"HEALTHY", "DEAD"}
    THEN [agents |-> <<a, b>>, ret |-> 38]
    ELSE IF a.category = "CURE" /\ b.category # "CURE"
    THEN [agents |-> <<a, Agent(b.name, new_b_category(b))>>, ret |-> 47]
    ELSE IF b.category = "CURE" /\ a.category # "CURE"
    THEN [agents |-> <<Agent(a.name, new_a_category(a)), b>>, ret |-> 55]
    ELSE IF a.category = "CURE" /\ b.category = "CURE"
    THEN [agents |-> <<a, b>>, ret |-> 58]
    ELSE IF a.category = "SICK" /\ b.category = "SICK"
    THEN [agents |-> <<Agent(a.name, "DYING"), Agent(b.name, "DYING")>>, ret |-> 62]
    ELSE IF a.category = "SICK" /\ b.category = "DYING"
    THEN [agents |-> <<Agent(a.name, "DYING"), Agent(b.name, "DEAD")>>, ret |-> 66]
    ELSE IF a.category = "DYING" /\ b.category = "SICK"
    THEN [agents |-> <<Agent(a.name, "DEAD"), Agent(b.name, "DYING")>>, ret |-> 69]
    ELSE IF a.category = "DYING" /\ b.category = "DYING"
    THEN [agents |-> <<Agent(a.name, "DEAD"), Agent(b.name, "DEAD")>>, ret |-> 73]
    ELSE [agents |-> <<a, b>>, ret |-> 76]

\* The test of line 79 excluding DEAD agents only.
Meets_dead_only(agent) == agent.category \notin {"DEAD"}

\* The test of the comprehension of line 79.
Meets(agent) == agent.category \notin {"HEALTHY", "DEAD"}

\* The test of the comprehension of line 80.
StaysOut(agent) == agent.category \in {"HEALTHY", "DEAD"}

\* Line 79 keeping every agent.
meeting_agents_unfiltered(listing) == listing

\* Line 79.
meeting_agents(listing) == SelectSeq(listing, Meets)

\* Line 80.
non_meeting_agents(listing) == SelectSeq(listing, StaysOut)

\* Lines 91-93 with the unpaired agent left out.
unpaired_dropped(res, agent1) == res

\* Lines 91-93 with the unpaired agent meeting itself.
unpaired_meets_itself(res, agent1) ==
    Append(res, process_pair(agent1, agent1).agents[1])

\* Lines 91-93: next(it) raised StopIteration; agent1 is appended as it is.
unpaired(res, agent1) == Append(res, agent1)

\* Line 96 with the two groups in the opposite order.
add_back_in_front(res, non_meeting) == non_meeting \o res

\* Line 96: result.extend(non_meeting_agents).
add_back(res, non_meeting) == res \o non_meeting

\* Lines 82-93: the for-loop over the iterator of meeting, which has handed
\* out i elements; res is result so far and log the calls of process_pair.
RECURSIVE meet_in_pairs(_, _, _, _)
meet_in_pairs(meeting, i, res, log) ==
    IF i + 2 <= Len(meeting)
    THEN LET agent1 == meeting[i + 1]
             agent2 == meeting[i + 2]
             out    == process_pair(agent1, agent2)
         IN  meet_in_pairs(meeting, i + 2, res \o out.agents,
                 Append(log, [a |-> agent1, b |-> agent2, ret |-> out.ret]))
    ELSE IF i + 1 = Len(meeting)
    THEN [result |-> unpaired(res, meeting[i + 1]), calls |-> log]
    ELSE [result |-> res, calls |-> log]

\* meetup(agent_listing), lines 79-98: the returned list, and the calls of
\* process_pair made on the way.
meetup(listing) ==
    LET looped == meet_in_pairs(meeting_agents(listing), 0, <<>>, <<>>)
    IN  [result |-> add_back(looped.result, non_meeting_agents(listing)),
         calls  |-> looped.calls]

Init ==
    /\ agent_listing \in Listings
    /\ changed = FALSE
    /\ result = <<>>
    /\ calls = <<>>
    /\ pc = "start"

\* One call of meetup on agent_listing, from entry to return.
Call ==
    /\ pc = "start"
    /\ LET out == meetup(agent_listing)
       IN  /\ result' = out.result
           /\ calls' = out.calls
           /\ changed' = (changed \/ out.result # agent_listing)
    /\ pc' = "done"
    /\ UNCHANGED agent_listing

\* The caller passes the returned list to meetup again.
Feed ==
    /\ pc = "done"
    /\ agent_listing' = result
    /\ result' = <<>>
    /\ calls' = <<>>
    /\ pc' = "start"
    /\ UNCHANGED changed

Next == Call

Spec == Init /\ [][Next]_vars

NextIter == Call \/ Feed

\* meetup is synchronous and always returns, and the caller always calls again.
IterSpec == Init /\ [][NextIter]_vars /\ WF_vars(NextIter)

----------------------------------------------------------------------------
(* Vocabulary of the properties. *)

ParticipatingStates == {"CURE", "SICK", "DYING"}

InGroup(agent) == agent.category \in ParticipatingStates

NotInGroup(agent) == agent.category \in {"HEALTHY", "DEAD"}

\* The input restricted to the participating states, in input order.
Participating == SelectSeq(agent_listing, InGroup)

\* The HEALTHY and DEAD agents of the input, in input order.
Bystanders == SelectSeq(agent_listing, NotInGroup)

Categories(s) == [i \in DOMAIN s |-> s[i].category]

NameCount(s, n) == Cardinality({i \in DOMAIN s : s[i].name = n})

\* The transition table, one row per ordered pair of participating states.
TableOutcome(x, y) ==
    CASE x = "CURE"  /\ y = "SICK"  -> <<"CURE", "HEALTHY">>
      [] x = "CURE"  /\ y = "DYING" -> <<"CURE", "SICK">>
      [] x = "CURE"  /\ y = "CURE"  -> <<"CURE", "CURE">>
      [] x = "SICK"  /\ y = "CURE"  -> <<"HEALTHY", "CURE">>
      [] x = "DYING" /\ y = "CURE"  -> <<"SICK", "CURE">>
      [] x = "SICK"  /\ y = "SICK"  -> <<"DYING", "DYING">>
      [] x = "SICK"  /\ y = "DYING" -> <<"DYING", "DEAD">>
      [] x = "DYING" /\ y = "SICK"  -> <<"DEAD", "DYING">>
      [] x = "DYING" /\ y = "DYING" -> <<"DEAD", "DEAD">>

----------------------------------------------------------------------------
\* C1: when meetup has returned, for every k the agents at output positions
\* 2k-1 and 2k carry the states the transition table gives for the states of
\* the (2k-1)-th and 2k-th participating agents of the input.
C1_TransitionTable ==
    pc = "done" =>
        \A k \in 1..(Len(Participating) \div 2) :
            /\ 2 * k <= Len(result)
            /\ <<result[2 * k - 1].category, result[2 * k].category>>
                 = TableOutcome(Participating[2 * k - 1].category,
                                Participating[2 * k].category)

\* Two meetings have taken place: SICK with DYING, then DYING with CURE.
C1_Witness ==
    /\ pc = "done"
    /\ Categories(agent_listing) = <<"SICK", "DYING", "DYING", "CURE">>
    /\ Categories(result) = <<"DYING", "DEAD", "SICK", "CURE">>

\* C2: when meetup has returned, the returned list is as long as the input.
C2_LengthPreserved ==
    pc = "done" => Len(result) = Len(agent_listing)

\* A return with a meeting, an unpaired participating agent and a bystander.
C2_Witness ==
    /\ pc = "done"
    /\ Len(agent_listing) = 4
    /\ Len(Participating) = 3
    /\ Len(calls) = 1
    /\ Len(result) = 4

\* C3: when meetup has returned, every name occurs in the output as many
\* times as it occurs in the input.
C3_NamesPreserved ==
    pc = "done" =>
        \A n \in Names : NameCount(result, n) = NameCount(agent_listing, n)

\* A return where a name occurs twice, another once, and a meeting has
\* rebuilt an agent.
C3_Witness ==
    /\ pc = "done"
    /\ NameCount(agent_listing, "A") = 2
    /\ NameCount(agent_listing, "B") = 1
    /\ NameCount(result, "A") = 2
    /\ \E k \in 1..Len(calls) : calls[k].ret = 47 /\ calls[k].b.name = "B"

\* C4: when meetup has returned, the HEALTHY and DEAD agents of the input
\* form, unchanged and in input order, the tail of the output, behind the
\* positions that hold the participating agents.
C4_BystandersLast ==
    pc = "done" =>
        LET p == Len(Participating)
        IN  /\ Len(result) = Len(agent_listing)
            /\ SubSeq(result, p + 1, Len(result)) = Bystanders
            /\ \A i \in 1..p : result[i].name = Participating[i].name

\* A return where two different bystanders stood before and between the
\* participating agents.
C4_Witness ==
    /\ pc = "done"
    /\ Len(agent_listing) = 4
    /\ agent_listing[1] = Agent("A", "HEALTHY")
    /\ agent_listing[3] = Agent("B", "DEAD")
    /\ InGroup(agent_listing[2])
    /\ InGroup(agent_listing[4])
    /\ SubSeq(result, 3, 4) = <<Agent("A", "HEALTHY"), Agent("B", "DEAD")>>

\* C5: when meetup has returned and the number of participating agents is
\* odd, the last participating agent is in the output as it was in the input.
C5_OddLastUnchanged ==
    (pc = "done" /\ Len(Participating) % 2 = 1) =>
        LET p == Len(Participating)
        IN  /\ p <= Len(result)
            /\ result[p] = Participating[p]

\* A return where a SICK agent was left over after a meeting, with a
\* bystander among the input.
C5_Witness ==
    /\ pc = "done"
    /\ Len(Participating) = 3
    /\ Len(Bystanders) = 1
    /\ Participating[3].category = "SICK"
    /\ Len(calls) = 1
    /\ result[3] = Participating[3]

\* C6: when meetup has returned, the k-th call of process_pair was made on
\* the (2k-1)-th and 2k-th participating agents of the input, there was one
\* call per such pair, and the names of the participating agents fill the
\* first output positions in input order.
C6_PairsAmongParticipating ==
    pc = "done" =>
        LET p == Len(Participating)
        IN  /\ Len(calls) = p \div 2
            /\ \A k \in 1..Len(calls) :
                  /\ 2 * k <= p
                  /\ calls[k].a = Participating[2 * k - 1]
                  /\ calls[k].b = Participating[2 * k]
            /\ \A i \in 1..p :
                  /\ i <= Len(result)
                  /\ result[i].name = Participating[i].name

\* A return where a HEALTHY agent stood between the two agents that met.
C6_Witness ==
    /\ pc = "done"
    /\ Len(agent_listing) >= 3
    /\ InGroup(agent_listing[1])
    /\ agent_listing[2].category = "HEALTHY"
    /\ InGroup(agent_listing[3])
    /\ agent_listing[1].name # agent_listing[3].name
    /\ Len(calls) >= 1
    /\ calls[1].a = agent_listing[1]
    /\ calls[1].b = agent_listing[3]

\* C7: when meetup has returned, the k-th call of process_pair was made on
\* the input elements a[2k-2] and a[2k-1] (counting from 0), as the docstring
\* of meetup says.
C7_PairsAreInputNeighbours ==
    pc = "done" =>
        \A k \in 1..Len(calls) :
            /\ calls[k].a = agent_listing[2 * k - 1]
            /\ calls[k].b = agent_listing[2 * k]

\* Output position of the last agent of the input.
LastPosition ==
    IF InGroup(agent_listing[Len(agent_listing)])
    THEN Len(Participating)
    ELSE Len(agent_listing)

\* C8: when meetup has returned and the input has an uneven number of
\* agents, the last agent of the input has in the output the state it had in
\* the input, as the docstring of meetup says.
C8_UnevenLastUnchanged ==
    (pc = "done" /\ Len(agent_listing) % 2 = 1) =>
        result[LastPosition].category
            = agent_listing[Len(agent_listing)].category

\* C9: every call of process_pair gets two agents with participating states
\* and returns neither at the HEALTHY/DEAD guard (line 38) nor at the final
\* default (line 76).
C9_OnlyParticipatingMeet ==
    \A k \in 1..Len(calls) :
        /\ calls[k].a.category \in ParticipatingStates
        /\ calls[k].b.category \in ParticipatingStates
        /\ calls[k].ret \notin {38, 76}

\* A meeting has taken place in a call whose input holds a HEALTHY and a
\* DEAD agent ahead of the agents that met.
C9_Witness ==
    /\ Len(agent_listing) = 4
    /\ agent_listing[1].category = "HEALTHY"
    /\ agent_listing[2].category = "DEAD"
    /\ Len(calls) = 1
    /\ calls[1].a = agent_listing[3]

\* C10: when the output is fed back again and again, meetup keeps returning
\* and from some call on it returns its input unchanged.
C10_ReachesFixedPoint ==
    /\ []<>(pc = "done")
    /\ <>[](pc = "done" => result = agent_listing)

\* A call that returned its input unchanged, after the listing had been fed
\* back and an earlier call had changed it.
C10_Witness ==
    /\ pc = "done"
    /\ changed
    /\ result = agent_listing
    /\ Len(calls) = 0
    /\ Categories(agent_listing) = <<"CURE", "DEAD", "DEAD", "HEALTHY">>

====
